---- MODULE Spec2Model ----
(***************************************************************************)
(* A model of pyspark.sql.variant_utils.VariantUtils: the decoder of the   *)
(* Variant binary encoding (a value buffer and a metadata buffer) into a   *)
(* JSON text (to_json) and into nested Python values (to_python).          *)
(*                                                                         *)
(* Buffers are sequences of bytes (0..255); Python's 0-based index p is    *)
(* the sequence index p + 1.  Texts are sequences of Unicode code points.  *)
(* A call of a function of the source is either Ok(v), its return value,   *)
(* or Raise(e), the exception it raises.                                   *)
(***************************************************************************)
EXTENDS Integers, Sequences, FiniteSets, TLC

VARIABLES value, metadata, pc, mode, stack, result, err, keyId, keyRes

vars == <<value, metadata, pc, mode, stack, result, err, keyId, keyRes>>

-----------------------------------------------------------------------------
(* Class constants of VariantUtils.                                        *)
BASIC_TYPE_BITS == 2
BASIC_TYPE_MASK == 3
TYPE_INFO_MASK == 63
PRIMITIVE == 0
SHORT_STR == 1
OBJECT == 2
ARRAY == 3
NULL == 0
TRUE_ == 1
FALSE_ == 2
INT1 == 3
INT2 == 4
INT4 == 5
INT8 == 6
DOUBLE == 7
DECIMAL4 == 8
DECIMAL8 == 9
DECIMAL16 == 10
LONG_STR == 16
U32_SIZE == 4

(* The bounds of the model.                                               *)

\* the longest value buffer over StructAlphabet
MaxStructLen == 6
\* the longest payload, over PayloadAlphabet, after a scalar header
MaxPayloadLen == 5
\* the longest metadata buffer over MetaAlphabet
MaxMetaLen == 5
\* the ids _get_metadata_key is called with are 0..MaxKeyId
MaxKeyId == 3
\* the interpreter's recursion limit (sys.getrecursionlimit()), counted in
\* nested activations of _to_json / _to_python and scaled down
RecursionLimit == 3

-----------------------------------------------------------------------------
(* The exceptions a call can end with.                                     *)
MALFORMED == "Malformed Variant"
UNEXPECTED == "Unexpected Variant type"
INDEX_ERROR == "IndexError"
STRUCT_ERROR == "struct.error"
UNICODE_ERROR == "UnicodeDecodeError"
RECURSION_ERROR == "RecursionError"
NAME_ERROR == "NameError"

Ok(v) == [ok |-> TRUE, v |-> v, e |-> "none"]
Raise(e) == [ok |-> FALSE, v |-> <<>>, e |-> e]

-----------------------------------------------------------------------------
(* Python's operators on bytes and ints.                                   *)

\* x >> n
Shr(x, n) == x \div (2 ^ n)

\* x & m, for a mask m = 2^k - 1
AndMask(x, m) == x % (m + 1)

\* data[p]
At(data, p) == data[p + 1]

\* data[a:b], for 0 <= a: the slice is cut at the end of data
Slice(data, a, b) == SubSeq(data, a + 1, IF b < Len(data) THEN b ELSE Len(data))

RECURSIVE LittleEndian(_)
\* int.from_bytes(bs, byteorder="little", signed=False)
LittleEndian(bs) ==
    IF bs = <<>> THEN 0 ELSE Head(bs) + 256 * LittleEndian(Tail(bs))

RECURSIVE LittleEndianSigned(_)
\* int.from_bytes(bs, byteorder="little", signed=True), for bs # <<>>
LittleEndianSigned(bs) ==
    IF Len(bs) = 1
    THEN (IF bs[1] >= 128 THEN bs[1] - 256 ELSE bs[1])
    ELSE Head(bs) + 256 * LittleEndianSigned(Tail(bs))

FromBytes(bs, signed) ==
    IF signed THEN LittleEndianSigned(bs) ELSE LittleEndian(bs)

\* _check_index passes (does not raise)
CheckIndex(pos, length) == ~(pos < 0 \/ pos >= length)

ReadLong(data, pos, num_bytes, signed) ==
    IF ~CheckIndex(pos, Len(data)) THEN Raise(MALFORMED)
    ELSE IF ~CheckIndex(pos + num_bytes - 1, Len(data)) THEN Raise(MALFORMED)
    ELSE Ok(FromBytes(Slice(data, pos, pos + num_bytes), signed))

\* (basic_type, type_info) of the header byte at pos
GetTypeInfo(v, pos) ==
    << AndMask(At(v, pos), BASIC_TYPE_MASK),
       AndMask(Shr(At(v, pos), BASIC_TYPE_BITS), TYPE_INFO_MASK) >>

-----------------------------------------------------------------------------
(* bytes.decode("utf-8"): the code points of a well-formed UTF-8 byte      *)
(* sequence, UnicodeDecodeError otherwise (overlong forms, surrogates,     *)
(* code points above U+10FFFF and truncated sequences are ill-formed).     *)

IsCont(b) == b >= 128 /\ b <= 191

\* the number of bytes of the well-formed sequence bs starts with; 0: none
Utf8Width(bs) ==
    LET b0 == bs[1]
        n == Len(bs)
        lo2 == IF b0 = 224 THEN 160 ELSE IF b0 = 240 THEN 144 ELSE 128
        hi2 == IF b0 = 237 THEN 159 ELSE IF b0 = 244 THEN 143 ELSE 191
        second == n >= 2 /\ bs[2] >= lo2 /\ bs[2] <= hi2
    IN  IF b0 < 128 THEN 1
        ELSE IF b0 >= 194 /\ b0 <= 223 THEN (IF second THEN 2 ELSE 0)
        ELSE IF b0 >= 224 /\ b0 <= 239
             THEN (IF second /\ n >= 3 /\ IsCont(bs[3]) THEN 3 ELSE 0)
        ELSE IF b0 >= 240 /\ b0 <= 244
             THEN (IF second /\ n >= 4 /\ IsCont(bs[3]) /\ IsCont(bs[4]) THEN 4 ELSE 0)
        ELSE 0

Utf8CodePoint(bs, w) ==
    IF w = 1 THEN bs[1]
    ELSE IF w = 2 THEN (bs[1] % 32) * 64 + (bs[2] % 64)
    ELSE IF w = 3 THEN (bs[1] % 16) * 4096 + (bs[2] % 64) * 64 + (bs[3] % 64)
    ELSE (bs[1] % 8) * 262144 + (bs[2] % 64) * 4096 + (bs[3] % 64) * 64 + (bs[4] % 64)

RECURSIVE Utf8Decode(_)
Utf8Decode(bs) ==
    IF bs = <<>> THEN Ok(<<>>)
    ELSE LET w == Utf8Width(bs)
         IN  IF w = 0 THEN Raise(UNICODE_ERROR)
             ELSE LET rest == Utf8Decode(SubSeq(bs, w + 1, Len(bs)))
                  IN  IF rest.ok THEN Ok(<<Utf8CodePoint(bs, w)>> \o rest.v)
                      ELSE rest

-----------------------------------------------------------------------------
(* _get_metadata_key                                                       *)

\* the guard `if id >= dict_size: raise` passes
IdInDictOffByOne(id, dict_size) == ~(id > dict_size)
IdInDict(id, dict_size) == ~(id >= dict_size)

\* the guard `if offset > next_offset: raise` passes
KeyOffsetsOrdered(offset, next_offset) == ~(offset > next_offset)

MetadataOffsetSize(md) == AndMask(Shr(At(md, 0), 6), 3) + 1

GetMetadataKey(md, id) ==
    IF ~CheckIndex(0, Len(md)) THEN Raise(MALFORMED)
    ELSE
    LET offset_size == MetadataOffsetSize(md)
        dict_size == ReadLong(md, 1, offset_size, FALSE)
    IN  IF ~dict_size.ok THEN dict_size
        ELSE IF ~IdInDict(id, dict_size.v) THEN Raise(MALFORMED)
        ELSE
        LET string_start == 1 + (dict_size.v + 2) * offset_size
            offset == ReadLong(md, 1 + (id + 1) * offset_size, offset_size, FALSE)
            next_offset == ReadLong(md, 1 + (id + 2) * offset_size, offset_size, FALSE)
        IN  IF ~offset.ok THEN offset
            ELSE IF ~next_offset.ok THEN next_offset
            ELSE IF ~KeyOffsetsOrdered(offset.v, next_offset.v) THEN Raise(MALFORMED)
            ELSE IF ~CheckIndex(string_start + next_offset.v - 1, Len(md))
                 THEN Raise(MALFORMED)
            ELSE Utf8Decode(Slice(md, string_start + offset.v,
                                  string_start + next_offset.v))

-----------------------------------------------------------------------------
(* Python values: a tag t (the Python type) and a payload v.               *)
(*   float:   the 8 bytes of its IEEE-754 binary64 form, low byte first    *)
(*   Decimal: <<sign, coefficient, exponent>>                              *)
(*   dict:    the sequence of its <<key, value>> items, in dict order      *)
(*   list:    the sequence of its elements                                 *)
PyNone == [t |-> "NoneType", v |-> 0]
PyBool(b) == [t |-> "bool", v |-> b]
PyInt(n) == [t |-> "int", v |-> n]
PyStr(s) == [t |-> "str", v |-> s]
PyFloat(bits) == [t |-> "float", v |-> bits]
PyDecimal(d) == [t |-> "Decimal", v |-> d]
PyDict(items) == [t |-> "dict", v |-> items]
PyList(items) == [t |-> "list", v |-> items]

-----------------------------------------------------------------------------
(* The scalar accessors.                                                   *)

GetBoolean(v, pos) ==
    IF ~CheckIndex(pos, Len(v)) THEN Raise(MALFORMED)
    ELSE LET ti == GetTypeInfo(v, pos)
         IN  IF ti[1] # PRIMITIVE \/ (ti[2] # TRUE_ /\ ti[2] # FALSE_)
             THEN Raise(UNEXPECTED)
             ELSE Ok(PyBool(ti[2] = TRUE_))

ReadInt(v, pos, num_bytes) ==
    LET r == ReadLong(v, pos, num_bytes, TRUE)
    IN  IF r.ok THEN Ok(PyInt(r.v)) ELSE r

GetLong(v, pos) ==
    IF ~CheckIndex(pos, Len(v)) THEN Raise(MALFORMED)
    ELSE LET ti == GetTypeInfo(v, pos)
         IN  IF ti[1] # PRIMITIVE THEN Raise(UNEXPECTED)
             ELSE IF ti[2] = INT1 THEN ReadInt(v, pos + 1, 1)
             ELSE IF ti[2] = INT2 THEN ReadInt(v, pos + 1, 2)
             ELSE IF ti[2] = INT4 THEN ReadInt(v, pos + 1, 4)
             ELSE IF ti[2] = INT8 THEN ReadInt(v, pos + 1, 8)
             ELSE Raise(UNEXPECTED)

\* the tail of _get_string: the bounds check of the payload and its decoding
StringPayload(v, start, length) ==
    IF ~CheckIndex(start + length - 1, Len(v)) THEN Raise(MALFORMED)
    ELSE LET s == Utf8Decode(Slice(v, start, start + length))
         IN  IF s.ok THEN Ok(PyStr(s.v)) ELSE s

GetString(v, pos) ==
    IF ~CheckIndex(pos, Len(v)) THEN Raise(MALFORMED)
    ELSE LET ti == GetTypeInfo(v, pos)
         IN  IF ti[1] = SHORT_STR THEN StringPayload(v, pos + 1, ti[2])
             ELSE IF ti[1] = PRIMITIVE /\ ti[2] = LONG_STR
             THEN LET length == ReadLong(v, pos + 1, U32_SIZE, FALSE)
                  IN  IF length.ok
                      THEN StringPayload(v, pos + 1 + U32_SIZE, length.v)
                      ELSE length
             ELSE Raise(UNEXPECTED)

\* struct.unpack("d", b): struct.error unless b holds exactly 8 bytes
StructUnpackD(b) ==
    IF Len(b) # 8 THEN Raise(STRUCT_ERROR) ELSE Ok(PyFloat(b))

GetDouble(v, pos) ==
    IF ~CheckIndex(pos, Len(v)) THEN Raise(MALFORMED)
    ELSE LET ti == GetTypeInfo(v, pos)
         IN  IF ti[1] # PRIMITIVE \/ ti[2] # DOUBLE THEN Raise(UNEXPECTED)
             ELSE StructUnpackD(Slice(v, pos + 1, pos + 9))

\* decimal.Decimal(unscaled) * (decimal.Decimal(10) ** (-scale)): the product
\* of (sign, |unscaled|, 0) and (0, 1, -scale); exact while the coefficient
\* has at most 28 digits (the default context's precision)
DecimalValueNegated(unscaled, scale) ==
    << IF unscaled < 0 THEN 1 ELSE 0, IF unscaled < 0 THEN -unscaled ELSE unscaled, scale >>
DecimalValue(unscaled, scale) ==
    << IF unscaled < 0 THEN 1 ELSE 0, IF unscaled < 0 THEN -unscaled ELSE unscaled, -scale >>

MakeDecimal(unscaled, scale) ==
    IF unscaled.ok THEN Ok(PyDecimal(DecimalValue(unscaled.v, scale))) ELSE unscaled

\* `Decimal` is not a name of the module (it imports `decimal`): the two
\* raise statements of _get_decimal end in NameError
GetDecimal(v, pos) ==
    IF ~CheckIndex(pos, Len(v)) THEN Raise(MALFORMED)
    ELSE LET ti == GetTypeInfo(v, pos)
         IN  IF ti[1] # PRIMITIVE THEN Raise(NAME_ERROR)
             \* scale = value[pos + 1], not bounds-checked
             ELSE IF pos + 1 >= Len(v) THEN Raise(INDEX_ERROR)
             ELSE LET scale == At(v, pos + 1)
                  IN  IF ti[2] = DECIMAL4
                      THEN MakeDecimal(ReadLong(v, pos + 2, 4, TRUE), scale)
                      ELSE IF ti[2] = DECIMAL8
                      THEN MakeDecimal(ReadLong(v, pos + 2, 8, TRUE), scale)
                      ELSE IF ti[2] = DECIMAL16
                      THEN IF ~CheckIndex(pos + 17, Len(v)) THEN Raise(MALFORMED)
                           ELSE MakeDecimal(
                                    Ok(FromBytes(Slice(v, pos + 2, pos + 18), TRUE)), scale)
                      ELSE Raise(NAME_ERROR)

\* the Python type _get_type returns, by its name
GetType(v, pos) ==
    IF ~CheckIndex(pos, Len(v)) THEN Raise(MALFORMED)
    ELSE LET ti == GetTypeInfo(v, pos)
             basic_type == ti[1]
             type_info == ti[2]
         IN  IF basic_type = SHORT_STR THEN Ok("str")
             ELSE IF basic_type = OBJECT THEN Ok("dict")
             ELSE IF basic_type = ARRAY THEN Ok("array")
             ELSE IF type_info = NULL THEN Ok("NoneType")
             ELSE IF type_info = TRUE_ \/ type_info = FALSE_ THEN Ok("bool")
             ELSE IF type_info \in {INT1, INT2, INT4, INT8} THEN Ok("int")
             ELSE IF type_info = DOUBLE THEN Ok("float")
             ELSE IF type_info \in {DECIMAL4, DECIMAL8, DECIMAL16} THEN Ok("Decimal")
             ELSE IF type_info = LONG_STR THEN Ok("str")
             ELSE Raise(MALFORMED)

GetScalar(variant_type, v, md, pos) ==
    IF variant_type = "NoneType" THEN Ok(PyNone)
    ELSE IF variant_type = "bool" THEN GetBoolean(v, pos)
    ELSE IF variant_type = "int" THEN GetLong(v, pos)
    ELSE IF variant_type = "str" THEN GetString(v, pos)
    ELSE IF variant_type = "float" THEN GetDouble(v, pos)
    ELSE IF variant_type = "Decimal" THEN GetDecimal(v, pos)
    ELSE Raise(MALFORMED)

-----------------------------------------------------------------------------
(* Texts.  A text is the sequence of its code points.                      *)

T_null == <<110, 117, 108, 108>>
T_true == <<116, 114, 117, 101>>
T_false == <<102, 97, 108, 115, 101>>
T_inf == <<105, 110, 102>>
T_nan == <<110, 97, 110>>

RECURSIVE Digits(_)
\* the decimal digits of n >= 0
Digits(n) ==
    IF n < 10 THEN <<48 + n>> ELSE Digits(n \div 10) \o <<48 + (n % 10)>>

\* str(n) of an int
IntStr(n) == IF n < 0 THEN <<45>> \o Digits(-n) ELSE Digits(n)

Zeros(n) == [i \in 1..n |-> 48]

\* str(d) of a Decimal (Decimal.__str__, the scientific string): plain
\* notation when the exponent is <= 0 and the value has fewer than six
\* leading fractional zeros, and one digit before the point with E otherwise
DecimalStr(d) ==
    LET sign == IF d[1] = 1 THEN <<45>> ELSE <<>>
        int == Digits(d[2])
        exp == d[3]
        leftdigits == exp + Len(int)
        dotplace == IF exp <= 0 /\ leftdigits > -6 THEN leftdigits ELSE 1
        intpart == IF dotplace <= 0 THEN <<48>>
                   ELSE IF dotplace >= Len(int)
                        THEN int \o Zeros(dotplace - Len(int))
                        ELSE SubSeq(int, 1, dotplace)
        fracpart == IF dotplace <= 0 THEN <<46>> \o Zeros(-dotplace) \o int
                    ELSE IF dotplace >= Len(int) THEN <<>>
                         ELSE <<46>> \o SubSeq(int, dotplace + 1, Len(int))
        e == leftdigits - dotplace
        exppart == IF e = 0 THEN <<>>
                   ELSE <<69>> \o (IF e < 0 THEN <<45>> ELSE <<43>>)
                             \o Digits(IF e < 0 THEN -e ELSE e)
    IN  sign \o intpart \o fracpart \o exppart

\* str(x) of a float, from its bits: inf, nan, the zeros, and the integral
\* values below 2^21 (digits and ".0").  The repr of any other double is
\* its shortest round-trip decimal form, which is left unexpanded here: the
\* marker -1 followed by the bits.
FloatStr(bits) ==
    LET neg == bits[8] >= 128
        sign == IF neg THEN <<45>> ELSE <<>>
        exponent == (bits[8] % 128) * 16 + (bits[7] \div 16)
        high == (bits[7] % 16) * 65536 + bits[6] * 256 + bits[5]
        lowzero == bits[1] = 0 /\ bits[2] = 0 /\ bits[3] = 0 /\ bits[4] = 0
        e == exponent - 1023
    IN  IF exponent = 2047
        THEN (IF high = 0 /\ lowzero THEN sign \o T_inf ELSE T_nan)
        ELSE IF exponent = 0 /\ high = 0 /\ lowzero THEN sign \o <<48, 46, 48>>
        ELSE IF e >= 0 /\ e <= 20 /\ lowzero /\ high % (2 ^ (20 - e)) = 0
             THEN sign \o Digits(2 ^ e + high \div (2 ^ (20 - e))) \o <<46, 48>>
        ELSE <<-1>> \o bits

HexDigit(d) == IF d < 10 THEN 48 + d ELSE 87 + d

\* \uXXXX
UEscape(c) ==
    <<92, 117, HexDigit(c \div 4096), HexDigit((c \div 256) % 16),
      HexDigit((c \div 16) % 16), HexDigit(c % 16)>>

\* json.dumps' escape of one code point (ensure_ascii)
JsonEscape(c) ==
    IF c = 34 THEN <<92, 34>>
    ELSE IF c = 92 THEN <<92, 92>>
    ELSE IF c = 10 THEN <<92, 110>>
    ELSE IF c = 13 THEN <<92, 114>>
    ELSE IF c = 9 THEN <<92, 116>>
    ELSE IF c = 12 THEN <<92, 102>>
    ELSE IF c = 8 THEN <<92, 98>>
    ELSE IF c >= 32 /\ c <= 126 THEN <<c>>
    ELSE IF c < 65536 THEN UEscape(c)
    ELSE UEscape(55296 + ((c - 65536) \div 1024)) \o UEscape(56320 + ((c - 65536) % 1024))

RECURSIVE JsonEscapeAll(_)
JsonEscapeAll(s) ==
    IF s = <<>> THEN <<>> ELSE JsonEscape(Head(s)) \o JsonEscapeAll(Tail(s))

\* json.dumps(s) of a str
JsonDumps(s) == <<34>> \o JsonEscapeAll(s) \o <<34>>

RECURSIVE Join(_, _)
\* sep.join(parts)
Join(sep, parts) ==
    IF parts = <<>> THEN <<>>
    ELSE IF Len(parts) = 1 THEN parts[1]
    ELSE parts[1] \o sep \o Join(sep, Tail(parts))

\* the tail of _to_json: the text of a scalar
ScalarJson(x) ==
    IF x.t = "NoneType" THEN T_null
    ELSE IF x.t = "bool" THEN (IF x.v THEN T_true ELSE T_false)
    ELSE IF x.t = "str" THEN JsonDumps(x.v)
    ELSE IF x.t = "int" THEN IntStr(x.v)
    ELSE IF x.t = "float" THEN FloatStr(x.v)
    ELSE DecimalStr(x.v)

-----------------------------------------------------------------------------
(* _handle_object and _handle_array: the header and the tables of a        *)
(* container, assuming its header byte at pos is readable.                 *)

ObjectLayout(v, pos) ==
    LET type_info == GetTypeInfo(v, pos)[2]
        large_size == AndMask(Shr(type_info, 4), 1) # 0
        size_bytes == IF large_size THEN U32_SIZE ELSE 1
        num_fields == ReadLong(v, pos + 1, size_bytes, FALSE)
        n == IF num_fields.ok THEN num_fields.v ELSE 0
        id_size == AndMask(Shr(type_info, 2), 3) + 1
        offset_size == AndMask(type_info, 3) + 1
        id_start == pos + 1 + size_bytes
        offset_start == id_start + n * id_size
    IN  [num_fields |-> num_fields, id_size |-> id_size, offset_size |-> offset_size,
         id_start |-> id_start, offset_start |-> offset_start,
         data_start |-> offset_start + (n + 1) * offset_size]

ArrayLayoutDataAtHeader(v, pos) ==
    LET type_info == GetTypeInfo(v, pos)[2]
        large_size == AndMask(Shr(type_info, 2), 1) # 0
        size_bytes == IF large_size THEN U32_SIZE ELSE 1
        num_fields == ReadLong(v, pos + 1, size_bytes, FALSE)
    IN  [num_fields |-> num_fields, id_size |-> 0, offset_size |-> AndMask(type_info, 3) + 1,
         id_start |-> pos + 1 + size_bytes, offset_start |-> pos + 1 + size_bytes,
         data_start |-> pos]
ArrayLayout(v, pos) ==
    LET type_info == GetTypeInfo(v, pos)[2]
        large_size == AndMask(Shr(type_info, 2), 1) # 0
        size_bytes == IF large_size THEN U32_SIZE ELSE 1
        num_fields == ReadLong(v, pos + 1, size_bytes, FALSE)
        n == IF num_fields.ok THEN num_fields.v ELSE 0
        offset_size == AndMask(type_info, 3) + 1
        offset_start == pos + 1 + size_bytes
    IN  [num_fields |-> num_fields, id_size |-> 0, offset_size |-> offset_size,
         id_start |-> offset_start, offset_start |-> offset_start,
         data_start |-> offset_start + (n + 1) * offset_size]

\* one round of _handle_object's loop: the (key, value_pos) pair of field i
ObjectEntry(v, md, L, i) ==
    LET id == ReadLong(v, L.id_start + L.id_size * i, L.id_size, FALSE)
        offset == ReadLong(v, L.offset_start + L.offset_size * i, L.offset_size, FALSE)
    IN  IF ~id.ok THEN id
        ELSE IF ~offset.ok THEN offset
        ELSE LET key == GetMetadataKey(md, id.v)
             IN  IF key.ok THEN Ok(<<key.v, L.data_start + offset.v>>) ELSE key

\* one round of _handle_array's loop: the position of element i
ArrayEntry(v, L, i) ==
    LET offset == ReadLong(v, L.offset_start + L.offset_size * i, L.offset_size, FALSE)
    IN  IF offset.ok THEN Ok(L.data_start + offset.v) ELSE offset

RECURSIVE ObjectEntries(_, _, _, _, _)
\* the loop of _handle_object from round i on, key_value_pos_list being acc
ObjectEntries(v, md, L, i, acc) ==
    IF i >= L.num_fields.v THEN Ok(acc)
    ELSE LET e == ObjectEntry(v, md, L, i)
         IN  IF e.ok THEN ObjectEntries(v, md, L, i + 1, Append(acc, e.v)) ELSE e

RECURSIVE ArrayEntries(_, _, _, _)
ArrayEntries(v, L, i, acc) ==
    IF i >= L.num_fields.v THEN Ok(acc)
    ELSE LET e == ArrayEntry(v, L, i)
         IN  IF e.ok THEN ArrayEntries(v, L, i + 1, Append(acc, e.v)) ELSE e

\* _handle_object up to the call of func: the key_value_pos_list it passes
HandleObject(v, md, pos) ==
    IF ~CheckIndex(pos, Len(v)) THEN Raise(MALFORMED)
    ELSE IF GetTypeInfo(v, pos)[1] # OBJECT THEN Raise(MALFORMED)
    ELSE LET L == ObjectLayout(v, pos)
         IN  IF ~L.num_fields.ok THEN L.num_fields
             ELSE ObjectEntries(v, md, L, 0, <<>>)

\* _handle_array up to the call of func: the value_pos_list it passes
HandleArray(v, pos) ==
    IF ~CheckIndex(pos, Len(v)) THEN Raise(MALFORMED)
    ELSE IF GetTypeInfo(v, pos)[1] # ARRAY THEN Raise(MALFORMED)
    ELSE LET L == ArrayLayout(v, pos)
         IN  IF ~L.num_fields.ok THEN L.num_fields
             ELSE ArrayEntries(v, L, 0, <<>>)

-----------------------------------------------------------------------------
(* The closures handle_object and handle_array of _to_json and _to_python, *)
(* applied to the children's results.                                      *)

RECURSIVE DictOf(_, _)
\* dict(pairs), built on d: a key already in d keeps its place and takes the
\* later value
DictOf(d, pairs) ==
    IF pairs = <<>> THEN d
    ELSE LET k == pairs[1][1]
             hit == {i \in 1..Len(d) : d[i][1] = k}
         IN  IF hit = {} THEN DictOf(Append(d, pairs[1]), Tail(pairs))
             ELSE DictOf([i \in 1..Len(d) |-> IF i \in hit THEN pairs[1] ELSE d[i]],
                         Tail(pairs))

\* pairs: the <<key, text of the child>> of each field, in list order
ObjectJsonViaDict(pairs) ==
    <<123>> \o Join(<<44>>, [i \in 1..Len(DictOf(<<>>, pairs)) |->
                  JsonDumps(DictOf(<<>>, pairs)[i][1]) \o <<58>> \o DictOf(<<>>, pairs)[i][2]])
            \o <<125>>
ObjectJson(pairs) ==
    <<123>> \o Join(<<44>>, [i \in 1..Len(pairs) |->
                                JsonDumps(pairs[i][1]) \o <<58>> \o pairs[i][2]])
            \o <<125>>

ArrayJson(texts) == <<91>> \o Join(<<44>>, texts) \o <<93>>

ObjectPython(pairs) == PyDict(DictOf(<<>>, pairs))

ArrayPython(vals) == PyList(vals)

-----------------------------------------------------------------------------
(* The call stack: one frame per activation of _to_json / _to_python.      *)
(*   st "call": entered, before _get_type                                   *)
(*   st "iter": inside the list comprehension of handle_object/array       *)
(*   st "ret":  about to return res                                        *)
(* children is the list _handle_object / _handle_array passed to the       *)
(* closure, acc the results of the children decoded so far, each with the  *)
(* position it was decoded at.                                             *)

NewFrame(p) ==
    [pos |-> p, st |-> "call", kind |-> "none", children |-> <<>>, acc |-> <<>>,
     res |-> <<>>]

Top == stack[Len(stack)]

SetTop(f) == [stack EXCEPT ![Len(stack)] = f]

ChildPos(f, i) == IF f.kind = "dict" THEN f.children[i][2] ELSE f.children[i]

\* the exception e leaves every frame
Throw(e) ==
    /\ err' = e
    /\ pc' = "done"
    /\ stack' = <<>>
    /\ UNCHANGED <<value, metadata, mode, result, keyId, keyRes>>

Step(f) ==
    /\ stack' = SetTop(f)
    /\ UNCHANGED <<value, metadata, pc, mode, result, err, keyId, keyRes>>

to_json ==
    /\ pc = "idle"
    /\ pc' = "run"
    /\ mode' = "json"
    /\ stack' = <<NewFrame(0)>>
    /\ UNCHANGED <<value, metadata, result, err, keyId, keyRes>>

to_python ==
    /\ pc = "idle"
    /\ pc' = "run"
    /\ mode' = "python"
    /\ stack' = <<NewFrame(0)>>
    /\ UNCHANGED <<value, metadata, result, err, keyId, keyRes>>

Running == pc = "run" /\ stack # <<>>

\* _get_type raises
TypeRaises ==
    /\ Running /\ Top.st = "call"
    /\ ~GetType(value, Top.pos).ok
    /\ Throw(GetType(value, Top.pos).e)

\* variant_type == dict: _handle_object, up to its call of handle_object
EnterObject ==
    /\ Running /\ Top.st = "call"
    /\ GetType(value, Top.pos).ok /\ GetType(value, Top.pos).v = "dict"
    /\ LET r == HandleObject(value, metadata, Top.pos)
       IN  IF r.ok
           THEN Step([Top EXCEPT !.st = "iter", !.kind = "dict", !.children = r.v])
           ELSE Throw(r.e)

\* variant_type == array: _handle_array, up to its call of handle_array
EnterArray ==
    /\ Running /\ Top.st = "call"
    /\ GetType(value, Top.pos).ok /\ GetType(value, Top.pos).v = "array"
    /\ LET r == HandleArray(value, Top.pos)
       IN  IF r.ok
           THEN Step([Top EXCEPT !.st = "iter", !.kind = "array", !.children = r.v])
           ELSE Throw(r.e)

\* the else branch: _get_scalar, and in _to_json the text of the scalar
Scalar ==
    /\ Running /\ Top.st = "call"
    /\ GetType(value, Top.pos).ok /\ GetType(value, Top.pos).v \notin {"dict", "array"}
    /\ LET r == GetScalar(GetType(value, Top.pos).v, value, metadata, Top.pos)
       IN  IF r.ok
           THEN Step([Top EXCEPT !.st = "ret", !.kind = "scalar",
                         !.res = IF mode = "json" THEN ScalarJson(r.v) ELSE r.v])
           ELSE Throw(r.e)

\* the comprehension's recursive call for the next child; the interpreter
\* raises RecursionError once the calls are nested RecursionLimit deep
CallChild ==
    /\ Running /\ Top.st = "iter"
    /\ Len(Top.acc) < Len(Top.children)
    /\ IF Len(stack) >= RecursionLimit
       THEN Throw(RECURSION_ERROR)
       ELSE /\ stack' = Append(stack, NewFrame(ChildPos(Top, Len(Top.acc) + 1)))
            /\ UNCHANGED <<value, metadata, pc, mode, result, err, keyId, keyRes>>

Results(f) == [i \in 1..Len(f.acc) |-> f.acc[i].res]

KeyedResults(f) == [i \in 1..Len(f.acc) |-> <<f.children[i][1], f.acc[i].res>>]

\* every child is decoded: the closure builds the container's result
Assemble ==
    /\ Running /\ Top.st = "iter"
    /\ Len(Top.acc) = Len(Top.children)
    /\ Step([Top EXCEPT !.st = "ret",
                !.res = IF Top.kind = "dict"
                        THEN (IF mode = "json" THEN ObjectJson(KeyedResults(Top))
                                               ELSE ObjectPython(KeyedResults(Top)))
                        ELSE (IF mode = "json" THEN ArrayJson(Results(Top))
                                               ELSE ArrayPython(Results(Top)))])

\* a nested call returns to the comprehension of its caller
ReturnToParent ==
    /\ Running /\ Top.st = "ret"
    /\ Len(stack) > 1
    /\ LET parent == stack[Len(stack) - 1]
       IN  stack' = Append(SubSeq(stack, 1, Len(stack) - 2),
                           [parent EXCEPT !.acc = Append(@, [pos |-> Top.pos, res |-> Top.res])])
    /\ UNCHANGED <<value, metadata, pc, mode, result, err, keyId, keyRes>>

\* the outermost call returns to the caller of to_json / to_python
ReturnResult ==
    /\ Running /\ Top.st = "ret"
    /\ Len(stack) = 1
    /\ result' = Top.res
    /\ pc' = "done"
    /\ stack' = <<>>
    /\ UNCHANGED <<value, metadata, mode, err, keyId, keyRes>>

\* a direct call of _get_metadata_key(metadata, id)
get_metadata_key ==
    /\ pc = "idle"
    /\ \E id \in 0..MaxKeyId :
          /\ keyId' = id
          /\ keyRes' = GetMetadataKey(metadata, id)
    /\ pc' = "key"
    /\ UNCHANGED <<value, metadata, mode, stack, result, err>>

-----------------------------------------------------------------------------
(* The buffers a caller passes.                                            *)

SeqsUpTo(S, n) == UNION {[1..k -> S] : k \in 0..n}

\* null / 0, empty short string / 1, object / 2, array / 3
StructAlphabet == {0, 1, 2, 3}

\* True, False, Int1, Int2, Int4, Int8, Double, Decimal4, Decimal8,
\* Decimal16, the unassigned type_info 11, LongString, and the short strings
\* of length 1 and 2
ScalarHeaders == {4, 8, 12, 16, 20, 24, 28, 32, 36, 40, 44, 64, 5, 9}

PayloadAlphabet == {0, 1, 100}

RECURSIVE NestedArrays(_)
\* d arrays of one element nested in each other around a null
NestedArrays(d) == IF d = 0 THEN <<0>> ELSE <<3, 1, 0, 0>> \o NestedArrays(d - 1)

StructuredValues ==
    { <<10, 2, 100>>,                         \* 0x0A 0x02 0x64
      <<32, 2, 100, 0, 0, 0>>,                \* Decimal4, scale 2, unscaled 100
      <<32, 3, 251, 255, 255, 255>>,          \* Decimal4, scale 3, unscaled -5
      <<28, 0, 0, 0, 0, 0, 0, 240, 63>>,      \* Double 1.0
      <<24, 255, 255, 255, 255, 255, 255, 255, 255>>,   \* Int8 -1
      <<12, 251>>,                            \* Int1 -5
      <<9, 97, 98>>,                          \* "ab"
      <<9, 195, 169>>,                        \* "é"
      <<5, 34>>,                              \* a quote
      <<5, 251>>,                             \* ill-formed UTF-8
      <<64, 1, 0, 0, 0, 97>>,                 \* LongString "a"
      <<3, 2, 1, 0, 0, 0, 4>>,                \* array, offsets 1, 0: [true,null]
      <<3, 2, 0, 1, 2, 0, 4>>,                \* array, offsets 0, 1: [null,true]
      <<19, 1, 0, 0, 0, 0, 0, 0>>,            \* array with a 4-byte count
      <<2, 2, 0, 0, 0, 0, 0, 0>>,             \* object, field id 0 twice
      <<2, 2, 1, 0, 0, 1, 2, 4, 8>>,          \* object, ids 1, 0
      <<2, 2, 0, 1, 0, 1, 2, 4, 8>>,          \* object, ids 0, 1
      <<2, 2, 0, 1, 1, 0, 1, 4, 8>>,          \* object, ids 0, 1, offsets 1, 0
      <<2, 1, 2, 0, 0, 0>>,                   \* object, id 2
      <<3, 1, 0, 0, 2, 1, 0, 0, 0, 4>>,       \* [{key 0: true}]
      NestedArrays(RecursionLimit - 1),       \* as deep as the interpreter allows
      NestedArrays(RecursionLimit) }          \* one level deeper

Values ==
    SeqsUpTo(StructAlphabet, MaxStructLen)
    \cup {<<h>> \o p : h \in ScalarHeaders, p \in SeqsUpTo(PayloadAlphabet, MaxPayloadLen)}
    \cup StructuredValues

Dictionaries ==
    { <<>>,
      <<1, 0, 0>>,                            \* no key
      <<1, 2, 0, 1, 2, 97, 98>>,              \* "a", "b"
      <<1, 2, 0, 1, 2, 97, 97>>,              \* "a", "a"
      <<1, 2, 1, 0, 1, 97>>,                  \* offsets 1, 0, 1
      <<1, 1, 0, 1, 251>> }                   \* a key of ill-formed UTF-8

\* 0x41: 2-byte offsets
MetaAlphabet == {0, 1, 2, 65}

KeyMetadata == SeqsUpTo(MetaAlphabet, MaxMetaLen) \cup Dictionaries

Idle ==
    /\ pc = "idle"
    /\ mode = "none"
    /\ stack = <<>>
    /\ result = <<>>
    /\ err = "none"
    /\ keyId = 0
    /\ keyRes = Ok(<<>>)

Init ==
    /\ value \in Values
    /\ metadata \in Dictionaries
    /\ Idle

Next ==
    \/ to_json
    \/ to_python
    \/ TypeRaises
    \/ EnterObject
    \/ EnterArray
    \/ Scalar
    \/ CallChild
    \/ Assemble
    \/ ReturnToParent
    \/ ReturnResult

Spec == Init /\ [][Next]_vars

KeyInit ==
    /\ value = <<>>
    /\ metadata \in KeyMetadata
    /\ Idle

KeyNext == get_metadata_key

KeySpec == KeyInit /\ [][KeyNext]_vars

-----------------------------------------------------------------------------
(* The claims.                                                             *)

Done == pc = "done"
Failed == Done /\ err # "none"
Returned == Done /\ err = "none"

\* the bytes that follow the header of a primitive of this type_info
PayloadBytes(type_info) ==
    IF type_info = INT1 THEN 1
    ELSE IF type_info = INT2 THEN 2
    ELSE IF type_info = INT4 THEN 4
    ELSE IF type_info \in {INT8, DOUBLE} THEN 8
    ELSE IF type_info = DECIMAL4 THEN 5
    ELSE IF type_info = DECIMAL8 THEN 9
    ELSE IF type_info = DECIMAL16 THEN 17
    ELSE 0

\* the value is one primitive whose payload runs past the end of the buffer
TruncatedPrimitive ==
    /\ Len(value) >= 1
    /\ GetTypeInfo(value, 0)[1] = PRIMITIVE
    /\ Len(value) < 1 + PayloadBytes(GetTypeInfo(value, 0)[2])

\* C1: a read that would extend past the end of its buffer makes the call
\* fail with 'Malformed Variant' and with no other failure, and no index
\* outside the buffer is accessed.  Stated for the payload of a primitive at
\* position 0.
C1_ReadPastEndIsMalformed ==
    /\ err # INDEX_ERROR
    /\ (Done /\ TruncatedPrimitive) => err = MALFORMED

\* field i (from 0) of the object at pos: its id, its key, its child position
FieldId(L, i) == ReadLong(value, L.id_start + L.id_size * i, L.id_size, FALSE).v
FieldKey(L, i) == GetMetadataKey(metadata, FieldId(L, i)).v
EntryOffset(L, i) ==
    ReadLong(value, L.offset_start + L.offset_size * i, L.offset_size, FALSE).v

\* C2: to_json emits exactly field_count members for an object, member i
\* being the key of id_table[i] and the text of the child decoded at
\* data_start + offset_table[i], in the stored order, none dropped or merged.
C2_JsonMembersInStoredOrder ==
    \A k \in 1..Len(stack) :
        LET f == stack[k]
            L == ObjectLayout(value, f.pos)
            n == L.num_fields.v
        IN  (mode = "json" /\ f.kind = "dict" /\ f.st = "ret") =>
                /\ Len(f.acc) = n
                /\ \A i \in 1..n : f.acc[i].pos = L.data_start + EntryOffset(L, i - 1)
                /\ f.res = <<123>>
                           \o Join(<<44>>, [i \in 1..n |->
                                  JsonDumps(FieldKey(L, i - 1)) \o <<58>> \o f.acc[i].res])
                           \o <<125>>

\* an object of two fields with the same key has been rendered by to_json
C2_Witness ==
    /\ mode = "json" /\ stack # <<>>
    /\ Top.kind = "dict" /\ Top.st = "ret"
    /\ Len(Top.children) = 2
    /\ Top.children[1][1] = Top.children[2][1]

KeyDictSize == ReadLong(metadata, 1, MetadataOffsetSize(metadata), FALSE)

\* C3: _get_metadata_key fails with 'Malformed Variant' whenever
\* id >= dict_size, the offset_size-byte unsigned integer at position 1.
C3_IdBeyondDictIsMalformed ==
    (pc = "key" /\ (metadata = <<>> \/ ~KeyDictSize.ok \/ keyId >= KeyDictSize.v))
        => keyRes = Raise(MALFORMED)

\* the id just past a dictionary of at least one key has been looked up
C3_Witness ==
    /\ pc = "key" /\ metadata # <<>> /\ KeyDictSize.ok
    /\ KeyDictSize.v >= 1 /\ keyId = KeyDictSize.v
    /\ ~keyRes.ok

\* C4: nesting is guarded: a decode never exhausts the interpreter's stack,
\* because nesting deeper than an explicit maximum fails with the decoder's
\* own 'too deeply nested' condition, or because the traversal keeps its
\* work on an explicit stack instead of one native call per level.
C4_NestingIsGuarded == err # RECURSION_ERROR

\* the offset table of the container at position 0, entries 0..n-1
TopLayout ==
    IF GetTypeInfo(value, 0)[1] = OBJECT THEN ObjectLayout(value, 0)
    ELSE ArrayLayout(value, 0)

TopUnordered ==
    /\ Len(value) >= 1
    /\ GetTypeInfo(value, 0)[1] \in {OBJECT, ARRAY}
    /\ TopLayout.num_fields.ok
    /\ \E i \in 0..(TopLayout.num_fields.v - 2) :
          /\ TopLayout.offset_start + TopLayout.offset_size * (i + 2) <= Len(value)
          /\ EntryOffset(TopLayout, i) > EntryOffset(TopLayout, i + 1)

\* C5: when two consecutive entries the decoder uses of an offset table are
\* not non-decreasing, to_json / to_python fail with 'Malformed Variant'
\* instead of producing a result.  Stated for the container at position 0,
\* as the part that no result is produced: a call on such a buffer does not
\* return.
C5_UnorderedOffsetsAreMalformed ==
    Returned => ~TopUnordered

\* C6: 'Unexpected Variant type' is unreachable through to_json and
\* to_python, so every failure of theirs is a 'Malformed Variant'.
C6_FailuresAreMalformed ==
    /\ err # UNEXPECTED
    /\ Failed => err = MALFORMED

T_1_00 == <<49, 46, 48, 48>>

\* C7, as claimed: [0x0A, 0x02, 0x64] decodes to the Decimal4 1.00 and
\* to_json returns the text 1.00.
C7_AsClaimed ==
    (Done /\ mode = "json" /\ value = <<10, 2, 100>>) => (err = "none" /\ result = T_1_00)

\* C7, amended: the header 0x0A is an Object (basic_type 2, type_info 2) and
\* decoding [0x0A, 0x02, 0x64] fails with 'Malformed Variant'; the Decimal4
\* of scale 2 and unscaled value 100 is [0x20, 0x02, 0x64, 0, 0, 0], of
\* which to_json returns the text 1.00.
C7_Decimal4Scenario ==
    /\ (Done /\ value = <<10, 2, 100>>) => err = MALFORMED
    /\ (Done /\ mode = "json" /\ value = <<32, 2, 100, 0, 0, 0>>)
          => (err = "none" /\ result = T_1_00)
    /\ (stack # <<>> /\ Top.st = "ret" /\ mode = "python" /\ value = <<32, 2, 100, 0, 0, 0>>)
          => Top.res = PyDecimal(<<0, 100, -2>>)

\* to_json has returned for the Decimal4 buffer
C7_Witness ==
    Returned /\ mode = "json" /\ value = <<32, 2, 100, 0, 0, 0>>

\* C8: to_python's mapping of an object holds one entry per stored field,
\* in the stored order, each key with the decoded child of its field, also
\* when the fields are unsorted or two of them have the same key.
C8_MappingHasOneEntryPerField ==
    \A k \in 1..Len(stack) :
        LET f == stack[k]
            L == ObjectLayout(value, f.pos)
            n == L.num_fields.v
        IN  (mode = "python" /\ f.kind = "dict" /\ f.st = "ret") =>
                /\ Len(f.res.v) = n
                /\ \A i \in 1..n : f.res.v[i] = <<FieldKey(L, i - 1), f.acc[i].res>>

FrameLayout(f) ==
    IF f.kind = "dict" THEN ObjectLayout(value, f.pos) ELSE ArrayLayout(value, f.pos)

\* C9: a container whose id table and (count + 1)-entry offset table do not
\* fit in the buffer fails with 'Malformed Variant' before its child list is
\* built, and the child list never holds more entries than the buffer has
\* bytes.
C9_CountIsBoundedByBuffer ==
    \A k \in 1..Len(stack) :
        stack[k].kind \in {"dict", "array"} =>
            /\ FrameLayout(stack[k]).data_start <= Len(value)
            /\ Len(stack[k].children) <= Len(value)

\* the frames that passed _get_type
Entered == {k \in 1..Len(stack) : stack[k].st # "call"}

StackAscends ==
    /\ \A k \in 1..(Len(stack) - 1) : stack[k + 1].pos > stack[k].pos
    /\ \A k \in 1..Len(stack) :
          /\ stack[k].kind \in {"dict", "array"} =>
                \A i \in 1..Len(stack[k].children) : ChildPos(stack[k], i) > stack[k].pos
          /\ k \in Entered => stack[k].pos < Len(value)
    /\ Cardinality(Entered) <= Len(value)

\* the work left, compared position by position: the state of the call
\* (idle, running, done), then one slot per nesting level, which counts the
\* children the frame at that level still has to decode
RankSlot(k) ==
    IF k > Len(stack) THEN Len(value) + 3
    ELSE IF stack[k].st = "call" THEN Len(value) + 2
    ELSE IF stack[k].st = "iter" THEN 1 + Len(stack[k].children) - Len(stack[k].acc)
    ELSE 0

Rank ==
    <<IF pc = "idle" THEN 2 ELSE IF pc = "run" THEN 1 ELSE 0>>
    \o [k \in 1..(Len(value) + 2) |-> RankSlot(k)]

LexLess(a, b) ==
    \E i \in 1..Len(a) : a[i] < b[i] /\ \A j \in 1..(i - 1) : a[j] = b[j]

\* a step is possible: a call can be made, or the innermost frame of the
\* running call is at one of its three places, each of which has a step
CanStep == pc = "idle" \/ (Running /\ Top.st \in {"call", "iter", "ret"})

\* C10: every child position is greater than its container's, a call at a
\* position >= len(value) fails at once, so positions increase along the
\* nested calls, the depth is at most len(value), and to_json / to_python
\* end, with a result or an error: every step lowers the work left, which
\* cannot go on for ever, and leads to a state that is done or has a step.
C10_DecodingTerminates ==
    [][ /\ StackAscends /\ StackAscends'
        /\ LexLess(Rank', Rank)
        /\ (Done' \/ CanStep') ]_vars

\* three calls are nested
C10_Witness == Len(stack) >= 3 /\ Top.st = "ret"

====
